---- MODULE Spec2Model ----
(***************************************************************************)
(* Model of package kik (src/kik/kik.go): the Client constructor, the six  *)
(* API operations (request builder -> basic auth -> executor) and the      *)
(* webhook signature verifier.                                             *)
(*                                                                         *)
(* Go strings are sequences of one-character strings; []byte values are    *)
(* sequences of integers 0..255.                                           *)
(***************************************************************************)
EXTENDS Integers, Sequences, FiniteSets, TLC

(***************************************************************************)
(* Characters and bytes                                                    *)
(***************************************************************************)

\* The printable ASCII characters, code 32 first (code 96 is spelled out).
Printable ==
  << " ", "!", "\"", "#", "$", "%", "&", "'", "(", ")", "*", "+", ",", "-", ".", "/",
     "0", "1", "2", "3", "4", "5", "6", "7", "8", "9", ":", ";", "<", "=", ">", "?",
     "@", "A", "B", "C", "D", "E", "F", "G", "H", "I", "J", "K", "L", "M", "N", "O",
     "P", "Q", "R", "S", "T", "U", "V", "W", "X", "Y", "Z", "[", "\\", "]", "^", "_",
     "grave", "a", "b", "c", "d", "e", "f", "g", "h", "i", "j", "k", "l", "m", "n", "o",
     "p", "q", "r", "s", "t", "u", "v", "w", "x", "y", "z", "{", "|", "}", "~" >>

\* The byte of a character.
Ord(c) == 31 + (CHOOSE i \in 1..Len(Printable) : Printable[i] = c)

\* []byte(s)
Bytes(s) == [i \in 1..Len(s) |-> Ord(s[i])]

(***************************************************************************)
(* 32-bit words as <<high half, low half>>, each half in 0..65535          *)
(***************************************************************************)

RECURSIVE And16(_, _)
And16(a, b) ==
  IF a = 0 \/ b = 0 THEN 0
  ELSE (a % 2) * (b % 2) + 2 * And16(a \div 2, b \div 2)

Xor16(a, b) == a + b - 2 * And16(a, b)

Not16(a) == 65535 - a

And32(x, y) == << And16(x[1], y[1]), And16(x[2], y[2]) >>

Xor32(x, y) == << Xor16(x[1], y[1]), Xor16(x[2], y[2]) >>

Or32(x, y) == << x[1] + y[1] - And16(x[1], y[1]), x[2] + y[2] - And16(x[2], y[2]) >>

Not32(x) == << Not16(x[1]), Not16(x[2]) >>

\* x + y mod 2^32
Add32(x, y) ==
  LET lo == x[2] + y[2]
  IN  << (x[1] + y[1] + (lo \div 65536)) % 65536, lo % 65536 >>

\* Rotate left by n, 0 <= n < 32.
Rotl32(x, n) ==
  LET y == IF n >= 16 THEN << x[2], x[1] >> ELSE x
      m == n % 16
      p == 2 ^ m
      q == 2 ^ (16 - m)
  IN  IF m = 0 THEN y
      ELSE << ((y[1] * p) % 65536) + (y[2] \div q),
              ((y[2] * p) % 65536) + (y[1] \div q) >>

(***************************************************************************)
(* crypto/sha1                                                             *)
(***************************************************************************)

Zeros(n) == [i \in 1..n |-> 0]

\* The message followed by 0x80, zeros to 56 mod 64, and the bit length as
\* a big-endian 64-bit integer.
Sha1Pad(msg) ==
  LET n    == Len(msg)
      z    == (119 - (n % 64)) % 64
      bits == 8 * n
  IN  msg \o << 128 >> \o Zeros(z) \o Zeros(4) \o
      << (bits \div 16777216) % 256, (bits \div 65536) % 256,
         (bits \div 256) % 256, bits % 256 >>

\* Word j (0..15) of block k (0-based) of the padded message p.
BlockWord(p, k, j) ==
  LET o == 64 * k + 4 * j
  IN  << p[o + 1] * 256 + p[o + 2], p[o + 3] * 256 + p[o + 4] >>

\* The message schedule w grown to n words.  The words to add are halved, so
\* that the evaluation nests to the logarithm of their number.
RECURSIVE Schedule(_, _)
Schedule(w, n) ==
  IF Len(w) >= n THEN w
  ELSE IF Len(w) = n - 1
  THEN Append(w, Rotl32(Xor32(Xor32(w[n - 3], w[n - 8]),
                              Xor32(w[n - 14], w[n - 16])), 1))
  ELSE Schedule(Schedule(w, (Len(w) + n) \div 2), n)

Sha1F(t, b, c, d) ==
  IF t < 20 THEN Or32(And32(b, c), And32(Not32(b), d))
  ELSE IF t < 40 THEN Xor32(Xor32(b, c), d)
  ELSE IF t < 60 THEN Or32(Or32(And32(b, c), And32(b, d)), And32(c, d))
  ELSE Xor32(Xor32(b, c), d)

Sha1K(t) ==
  IF t < 20 THEN << 23170, 31129 >>        \* 0x5A827999
  ELSE IF t < 40 THEN << 28377, 60321 >>   \* 0x6ED9EBA1
  ELSE IF t < 60 THEN << 36635, 48348 >>   \* 0x8F1BBCDC
  ELSE << 51810, 49622 >>                  \* 0xCA62C1D6

\* One round on s = <<a, b, c, d, e, t>>, t (0..79) the round to do.
Round(s, w) ==
  LET t   == s[6]
      tmp == Add32(Add32(Add32(Rotl32(s[1], 5), Sha1F(t, s[2], s[3], s[4])),
                         Add32(s[5], w[t + 1])), Sha1K(t))
  IN  << tmp, s[1], Rotl32(s[2], 30), s[3], s[4], t + 1 >>

\* The rounds before round n, halved as in Schedule.
RECURSIVE Rounds(_, _, _)
Rounds(s, w, n) ==
  IF s[6] >= n THEN s
  ELSE IF s[6] = n - 1 THEN Round(s, w)
  ELSE Rounds(Rounds(s, w, (s[6] + n) \div 2), w, n)

\* The compression of blocks k.. of the padded message p into the state h.
RECURSIVE Blocks(_, _, _)
Blocks(h, p, k) ==
  IF 64 * k >= Len(p) THEN h
  ELSE LET w == Schedule(<< BlockWord(p, k, 0), BlockWord(p, k, 1), BlockWord(p, k, 2),
                            BlockWord(p, k, 3), BlockWord(p, k, 4), BlockWord(p, k, 5),
                            BlockWord(p, k, 6), BlockWord(p, k, 7), BlockWord(p, k, 8),
                            BlockWord(p, k, 9), BlockWord(p, k, 10), BlockWord(p, k, 11),
                            BlockWord(p, k, 12), BlockWord(p, k, 13), BlockWord(p, k, 14),
                            BlockWord(p, k, 15) >>, 80)
           s == Rounds(<< h[1], h[2], h[3], h[4], h[5], 0 >>, w, 80)
       IN  Blocks(<< Add32(h[1], s[1]), Add32(h[2], s[2]), Add32(h[3], s[3]),
                     Add32(h[4], s[4]), Add32(h[5], s[5]) >>, p, k + 1)

Sha1Init ==
  << << 26437, 8961 >>, << 61389, 43913 >>, << 39098, 56574 >>,
     << 4146, 21622 >>, << 50130, 57840 >> >>

WordBytes(x) == << x[1] \div 256, x[1] % 256, x[2] \div 256, x[2] % 256 >>

\* sha1.Sum: the 20 bytes of the digest.
Sha1(msg) ==
  LET h == Blocks(Sha1Init, Sha1Pad(msg), 0)
  IN  WordBytes(h[1]) \o WordBytes(h[2]) \o WordBytes(h[3]) \o
      WordBytes(h[4]) \o WordBytes(h[5])

(***************************************************************************)
(* crypto/hmac and encoding/hex                                            *)
(***************************************************************************)

Xor8(a, b) == Xor16(a, b)

\* hmac.New(sha1.New, key); Write(message); Sum(nil)
HmacSha1(key, message) ==
  LET k0   == IF Len(key) > 64 THEN Sha1(key) ELSE key
      kp   == k0 \o Zeros(64 - Len(k0))
      ipad == [i \in 1..64 |-> Xor8(kp[i], 54)]
      opad == [i \in 1..64 |-> Xor8(kp[i], 92)]
  IN  Sha1(opad \o Sha1(ipad \o message))

HexDigits ==
  << "0", "1", "2", "3", "4", "5", "6", "7", "8", "9", "a", "b", "c", "d", "e", "f" >>

\* hex.EncodeToString
HexEncodeToString(b) ==
  [i \in 1..(2 * Len(b)) |->
     LET x == b[(i + 1) \div 2]
     IN  IF i % 2 = 1 THEN HexDigits[(x \div 16) + 1] ELSE HexDigits[(x % 16) + 1]]

computeHmac1(message, secret) == HexEncodeToString(HmacSha1(Bytes(secret), message))

(***************************************************************************)
(* strings                                                                 *)
(***************************************************************************)

\* strings.HasSuffix
HasSuffix(s, suffix) ==
  /\ Len(s) >= Len(suffix)
  /\ SubSeq(s, Len(s) - Len(suffix) + 1, Len(s)) = suffix

\* strings.HasPrefix
HasPrefix(s, prefix) ==
  /\ Len(s) >= Len(prefix)
  /\ SubSeq(s, 1, Len(prefix)) = prefix

\* strings.Index and strings.LastIndex for one character, 1-based; 0 when absent.
Index(s, c) ==
  IF \E i \in 1..Len(s) : s[i] = c
  THEN CHOOSE i \in 1..Len(s) : s[i] = c /\ \A j \in 1..(i - 1) : s[j] # c
  ELSE 0

LastIndex(s, c) ==
  IF \E i \in 1..Len(s) : s[i] = c
  THEN CHOOSE i \in 1..Len(s) : s[i] = c /\ \A j \in (i + 1)..Len(s) : s[j] # c
  ELSE 0

Upper  == { Printable[i] : i \in 34..59 }
Lower  == { Printable[i] : i \in 66..91 }
Digit  == { Printable[i] : i \in 17..26 }
Letter == Upper \cup Lower

\* The control characters the model's strings can hold.
CTL == { "\t", "\n", "\r" }

ToLowerChar(c) == IF c \in Upper THEN Printable[(Ord(c) - 31) + 32] ELSE c

\* strings.ToLower
ToLower(s) == [i \in 1..Len(s) |-> ToLowerChar(s[i])]

IsHex(c) == c \in Digit \cup { "a", "b", "c", "d", "e", "f", "A", "B", "C", "D", "E", "F" }

(***************************************************************************)
(* net/url, for URLs without "#", "?", "@" and "["                         *)
(***************************************************************************)

NoErr == [err |-> "nil"]

\* getScheme: <<scheme, rest, err>>.
getScheme(rawURL) ==
  LET Goes(i) == \/ rawURL[i] \in Letter
                 \/ (i > 1 /\ rawURL[i] \in Digit \cup { "+", "-", "." })
      stops  == { i \in 1..Len(rawURL) : ~Goes(i) }
  IN  IF stops = {} THEN << << >>, rawURL, NoErr >>
      ELSE LET i == CHOOSE j \in stops : \A k \in stops : j <= k
           IN  IF rawURL[i] = ":"
               THEN IF i = 1
                    THEN << << >>, << >>, [err |-> "missing protocol scheme"] >>
                    ELSE << SubSeq(rawURL, 1, i - 1),
                            SubSeq(rawURL, i + 1, Len(rawURL)), NoErr >>
               ELSE << << >>, rawURL, NoErr >>

\* The characters of a host that need no escaping (shouldEscape, encodeHost).
HostChars ==
  Letter \cup Digit \cup
  { "-", "_", ".", "~", "!", "$", "&", "'", "(", ")", "*", "+", ",", ";", "=", ":",
    "[", "]", "<", ">", "\"" }

\* unescape, as far as its error goes: the error of the first bad character.
\* (The two digits of a good escape are hexadecimal, so they are never bad.)
unescapeErr(s, host) ==
  LET Bad(i) ==
        IF s[i] = "%"
        THEN \/ i + 2 > Len(s)
             \/ ~IsHex(s[i + 1])
             \/ ~IsHex(s[i + 2])
             \/ (host /\ s[i + 1] \in { "0", "1", "2", "3", "4", "5", "6", "7" }
                      /\ SubSeq(s, i, i + 2) # << "%", "2", "5" >>)
        ELSE host /\ s[i] \notin HostChars
      bad == { i \in 1..Len(s) : Bad(i) }
  IN  IF bad = {} THEN NoErr
      ELSE LET i == CHOOSE j \in bad : \A k \in bad : j <= k
           IN  IF s[i] = "%" THEN [err |-> "invalid URL escape"]
               ELSE [err |-> "invalid character in host name"]

\* validOptionalPort
validOptionalPort(port) ==
  \/ port = << >>
  \/ /\ port[1] = ":"
     /\ \A i \in 2..Len(port) : port[i] \in Digit

\* parseHost, as far as its error goes.
parseHostErr(host) ==
  LET i == LastIndex(host, ":")
  IN  IF i # 0 /\ ~validOptionalPort(SubSeq(host, i, Len(host)))
      THEN [err |-> "invalid port after host"]
      ELSE unescapeErr(host, TRUE)

\* url.Parse: [err |-> "nil", url |-> the URL] or [err |-> the error].
Parse(rawURL) ==
  LET gs     == getScheme(rawURL)
      scheme == ToLower(gs[1])
      rest   == gs[2]
      segEnd == IF Index(rest, "/") = 0 THEN Len(rest) ELSE Index(rest, "/") - 1
      hasAuth == (scheme # << >> \/ ~HasPrefix(rest, << "/", "/", "/" >>))
                 /\ HasPrefix(rest, << "/", "/" >>)
      auth0  == SubSeq(rest, 3, Len(rest))
      cut    == Index(auth0, "/")
      host   == IF cut = 0 THEN auth0 ELSE SubSeq(auth0, 1, cut - 1)
      path   == IF ~hasAuth THEN rest
                ELSE IF cut = 0 THEN << >> ELSE SubSeq(auth0, cut, Len(auth0))
      URL(o, h, p, omit) ==
        [err |-> "nil",
         url |-> [Scheme |-> scheme, Opaque |-> o, Host |-> h, Path |-> p,
                  OmitHost |-> omit]]
  IN  IF \E i \in 1..Len(rawURL) : rawURL[i] \in CTL
      THEN [err |-> "invalid control character in URL"]
      ELSE IF rawURL = << "*" >>
      THEN [err |-> "nil",
            url |-> [Scheme |-> << >>, Opaque |-> << >>, Host |-> << >>,
                     Path |-> << "*" >>, OmitHost |-> FALSE]]
      ELSE IF gs[3] # NoErr THEN gs[3]
      ELSE IF ~HasPrefix(rest, << "/" >>) /\ scheme # << >>
      THEN URL(rest, << >>, << >>, FALSE)
      ELSE IF ~HasPrefix(rest, << "/" >>) /\ Index(SubSeq(rest, 1, segEnd), ":") # 0
      THEN [err |-> "first path segment in URL cannot contain colon"]
      ELSE IF hasAuth /\ parseHostErr(host) # NoErr THEN parseHostErr(host)
      ELSE IF unescapeErr(path, FALSE) # NoErr THEN unescapeErr(path, FALSE)
      ELSE URL(<< >>, IF hasAuth THEN host ELSE << >>, path,
               ~hasAuth /\ scheme # << >> /\ HasPrefix(rest, << "/" >>))

\* URL.String
String(u) ==
  LET head == IF u.Scheme # << >> THEN u.Scheme \o << ":" >> ELSE << >>
      auth == IF u.Scheme # << >> \/ u.Host # << >>
              THEN IF u.OmitHost /\ u.Host = << >> THEN << >>
                   ELSE (IF u.Host # << >> \/ u.Path # << >>
                         THEN << "/", "/" >> ELSE << >>) \o u.Host
              ELSE << >>
      sep  == IF u.Path # << >> /\ u.Path[1] # "/" /\ u.Host # << >>
              THEN << "/" >> ELSE << >>
      seg  == IF Index(u.Path, "/") = 0 THEN u.Path
              ELSE SubSeq(u.Path, 1, Index(u.Path, "/") - 1)
      dot  == IF head \o auth \o sep = << >> /\ Index(seg, ":") # 0
              THEN << ".", "/" >> ELSE << >>
  IN  IF u.Opaque # << >> THEN head \o u.Opaque
      ELSE head \o auth \o sep \o dot \o u.Path

(***************************************************************************)
(* encoding/base64 and http.Request.SetBasicAuth                           *)
(***************************************************************************)

B64Char(n) ==
  IF n < 26 THEN Printable[34 + n]
  ELSE IF n < 52 THEN Printable[66 + (n - 26)]
  ELSE IF n < 62 THEN Printable[17 + (n - 52)]
  ELSE IF n = 62 THEN "+" ELSE "/"

\* base64.StdEncoding.EncodeToString
Base64(b) ==
  LET n     == Len(b)
      At(j) == IF j <= n THEN b[j] ELSE 0
  IN  [i \in 1..(4 * ((n + 2) \div 3)) |->
         LET g   == (i - 1) \div 4
             pos == (i - 1) % 4
             b0  == At(3 * g + 1)
             b1  == At(3 * g + 2)
             b2  == At(3 * g + 3)
         IN  IF pos = 0 THEN B64Char(b0 \div 4)
             ELSE IF pos = 1 THEN B64Char((b0 % 4) * 16 + (b1 \div 16))
             ELSE IF pos = 2
             THEN IF 3 * g + 2 > n THEN "="
                  ELSE B64Char((b1 % 16) * 4 + (b2 \div 64))
             ELSE IF 3 * g + 3 > n THEN "=" ELSE B64Char(b2 % 64)]

\* The value of the Authorization header for a user name and a password.
basicAuth(username, password) ==
  << "B", "a", "s", "i", "c", " " >> \o Base64(Bytes(username \o << ":" >> \o password))

\* req.SetBasicAuth(username, password)
SetBasicAuth(req, username, password) ==
  [req EXCEPT !.Authorization = basicAuth(username, password)]

(***************************************************************************)
(* JSON values and the Go values the operations exchange                   *)
(***************************************************************************)

JNull      == [j |-> "null"]
JStr(s)    == [j |-> "string", s |-> s]
JArr(a)    == [j |-> "array", items |-> a]
JObj(f)    == [j |-> "object", fields |-> f]

\* A Go slice: nil, or its elements.
NilSlice   == [isnil |-> TRUE, elems |-> << >>]
Slice(e)   == [isnil |-> FALSE, elems |-> e]

\* A Go pointer to a struct: nil, or the struct it points to.
NilPtr     == [isnil |-> TRUE]
Ptr(v)     == [isnil |-> FALSE, val |-> v]

\* The nil interface value (no payload, no decode target).
NilValue   == [go |-> "nil"]

\* A value encoding/json cannot encode (a channel, a func, a NaN).
Unsupported == "unsupported"

ZeroConfiguration == [Webhook |-> "", Features |-> ""]
ZeroUser          == [Username |-> ""]
ZeroCode          == [Id |-> ""]

\* The JSON key of each field of the three structs the API returns.
JsonKey ==
  [Webhook |-> "webhook", Features |-> "features", Username |-> "username", Id |-> "id"]

\* json encoding of a Message or of a ScanData: an object, or no encoding.
MarshalItem(m) ==
  IF m = Unsupported THEN [err |-> "json: unsupported value"]
  ELSE [err |-> "nil", json |-> JObj([data |-> JStr(m)])]

\* json encoding of a payload: [err |-> "nil", json |-> value] or [err |-> cause].
\* A nil pointer encodes as null, and so does a nil slice; an empty slice is [].
Marshal(v) ==
  IF v.go = "*Configuration"
  THEN IF v.ptr.isnil THEN [err |-> "nil", json |-> JNull]
       ELSE [err |-> "nil",
             json |-> JObj([webhook  |-> JStr(v.ptr.val.Webhook),
                            features |-> JStr(v.ptr.val.Features)])]
  ELSE IF v.go = "*ScanData"
  THEN IF v.ptr.isnil THEN [err |-> "nil", json |-> JNull]
       ELSE MarshalItem(v.ptr.val)
  ELSE \* v.go = "Messages"
       IF \E i \in 1..Len(v.Messages.elems) : v.Messages.elems[i] = Unsupported
       THEN [err |-> "json: unsupported value"]
       ELSE [err |-> "nil",
             json |-> JObj([messages |->
                       IF v.Messages.isnil THEN JNull
                       ELSE JArr([i \in 1..Len(v.Messages.elems) |->
                                    MarshalItem(v.Messages.elems[i]).json])])]

(***************************************************************************)
(* Response bodies (raw bytes, named by their text) and their decoding     *)
(***************************************************************************)

RUser     == "{\"username\":\"alice\"}"
RConfig   == "{\"webhook\":\"w2\"}"
RCode     == "{\"id\":\"c1\"}"
RNull     == "null"
RArray    == "[]"
RBad      == "{"
REmpty    == ""

\* The JSON value a body holds: [err |-> "nil", json |-> value] or [err |-> cause].
ParseJSON(raw) ==
  IF raw = RUser THEN [err |-> "nil", json |-> JObj([username |-> JStr("alice")])]
  ELSE IF raw = RConfig THEN [err |-> "nil", json |-> JObj([webhook |-> JStr("w2")])]
  ELSE IF raw = RCode THEN [err |-> "nil", json |-> JObj([id |-> JStr("c1")])]
  ELSE IF raw = RNull THEN [err |-> "nil", json |-> JNull]
  ELSE IF raw = RArray THEN [err |-> "nil", json |-> JArr(<< >>)]
  ELSE IF raw = REmpty THEN [err |-> "EOF"]
  ELSE [err |-> "unexpected end of JSON input"]

\* A JSON object decoded into a struct: the fields the object names are set,
\* the others keep their values.
DecodeStruct(val, obj) ==
  [f \in DOMAIN val |->
     IF JsonKey[f] \in DOMAIN obj.fields /\ obj.fields[JsonKey[f]].j = "string"
     THEN obj.fields[JsonKey[f]].s
     ELSE val[f]]

(***************************************************************************)
(* Errors                                                                  *)
(***************************************************************************)

NilErr                == [kind |-> "nil"]
ConfigError(msg, url) == [kind |-> "ConfigError", msg |-> msg, url |-> url]
EncodeError(cause)    == [kind |-> "EncodeError", cause |-> cause]
TransportError(cause) == [kind |-> "TransportError", cause |-> cause]
StatusError(code, b)  == [kind |-> "StatusError", code |-> code, body |-> b]
DecodeError(cause)    == [kind |-> "DecodeError", cause |-> cause]

(***************************************************************************)
(* Package constants (kik.go, lines 15-21)                                 *)
(***************************************************************************)

GetUserUrl     == << "/", "v", "1", "/", "u", "s", "e", "r", "/" >>
SendMessageUrl == << "/", "v", "1", "/", "m", "e", "s", "s", "a", "g", "e" >>
BroadcastUrl   == << "/", "v", "1", "/", "b", "r", "o", "a", "d", "c", "a", "s", "t" >>
ConfigtUrl     == << "/", "v", "1", "/", "c", "o", "n", "f", "i", "g" >>
CodeUrl        == << "/", "v", "1", "/", "c", "o", "d", "e" >>

(***************************************************************************)
(* NewKikClient                                                            *)
(***************************************************************************)

\* NewKikClient without its check of the trailing slash.
NewKikClientNoSlashCheck(baseUrl, botUsername, apiKey, httpClient) ==
  LET hc == IF httpClient = "nil" THEN "&http.Client{}" ELSE httpClient
      u  == Parse(baseUrl)
  IN  IF u.err # "nil"
      THEN [client |-> NilPtr, err |-> ConfigError(u.err, baseUrl)]
      ELSE [client |-> Ptr([BotUsername |-> botUsername, ApiKey |-> apiKey,
                            Client |-> hc, BaseUrl |-> u.url]),
            err    |-> NilErr]

\* NewKikClient(baseUrl, botUsername, apiKey, httpClient): [client, err].
\* httpClient is "nil" or names a caller's *http.Client.
NewKikClientResult(baseUrl, botUsername, apiKey, httpClient) ==
  LET hc == IF httpClient = "nil" THEN "&http.Client{}" ELSE httpClient
      u  == Parse(baseUrl)
  IN  IF ~HasSuffix(baseUrl, << "/" >>)
      THEN [client |-> NilPtr,
            err    |-> ConfigError("BaseURL must have a trailing slash", baseUrl)]
      ELSE IF u.err # "nil"
      THEN [client |-> NilPtr, err |-> ConfigError(u.err, baseUrl)]
      ELSE [client |-> Ptr([BotUsername |-> botUsername, ApiKey |-> apiKey,
                            Client |-> hc, BaseUrl |-> u.url]),
            err    |-> NilErr]

(***************************************************************************)
(* The request builder and the executor                                    *)
(***************************************************************************)

NoReq == [none |-> TRUE]

\* k.newRequest(method, urlStr, body): [err, req].  The target is the base
\* URL with urlStr appended; a body that is not the nil interface is encoded.
newRequest(k, method, urlStr, body) ==
  LET url == String(k.BaseUrl) \o urlStr
      m   == Marshal(body)
  IN  IF body = NilValue
      THEN [err |-> NilErr,
            req |-> [Method |-> method, URL |-> url, Body |-> [present |-> FALSE],
                     Authorization |-> << >>]]
      ELSE IF m.err # "nil"
      THEN [err |-> EncodeError(m.err), req |-> NoReq]
      ELSE [err |-> NilErr,
            req |-> [Method |-> method, URL |-> url,
                     Body |-> [present |-> TRUE, json |-> m.json],
                     Authorization |-> << >>]]

\* The outcomes of the transport: an error, or a response.
RoundTripError == [kind |-> "error", cause |-> "connection refused"]
Response(code, body) == [kind |-> "response", StatusCode |-> code, Body |-> body]

\* json decoding of a value into the target v: [err, v].
Decode(v, j) ==
  IF v.go = "**Configuration"
  THEN IF j.j = "null" THEN [err |-> NilErr, v |-> [v EXCEPT !.ptr = NilPtr]]
       ELSE IF j.j = "object"
       THEN [err |-> NilErr,
             v   |-> [v EXCEPT !.ptr =
                        Ptr(DecodeStruct(IF v.ptr.isnil THEN ZeroConfiguration
                                         ELSE v.ptr.val, j))]]
       ELSE [err |-> DecodeError("json: cannot unmarshal into Go value"), v |-> v]
  ELSE IF j.j = "null" THEN [err |-> NilErr, v |-> v]
       ELSE IF j.j = "object"
       THEN [err |-> NilErr, v |-> [v EXCEPT !.val = DecodeStruct(v.val, j)]]
       ELSE [err |-> DecodeError("json: cannot unmarshal into Go value"), v |-> v]

\* k.do(req, v) when the transport answers t: [err, v, decoded], v the target
\* afterwards and decoded whether the body was given to the decoder.
do(k, req, v, t) ==
  IF t.kind = "error"
  THEN [err |-> TransportError(t.cause), v |-> v, decoded |-> FALSE]
  ELSE IF t.StatusCode < 200 \/ t.StatusCode > 299
  THEN [err |-> StatusError(t.StatusCode, t.Body), v |-> v, decoded |-> FALSE]
  ELSE IF v = NilValue
  THEN [err |-> NilErr, v |-> v, decoded |-> FALSE]
  ELSE LET p == ParseJSON(t.Body)
       IN  IF p.err # "nil"
           THEN [err |-> DecodeError(p.err), v |-> v, decoded |-> TRUE]
           ELSE [err |-> Decode(v, p.json).err, v |-> Decode(v, p.json).v,
                 decoded |-> TRUE]

(***************************************************************************)
(* The bodies of the public operations                                     *)
(***************************************************************************)

\* The error of newRequest ignored.
BuildNeverFailed(r) == FALSE

\* if err != nil { return err }: the operation returns after newRequest.
BuildFailed(r) == r.err # NilErr

\* The credentials in the wrong order.
CredentialsSwapped(k) == << k.ApiKey, k.BotUsername >>

\* The credentials every operation gives to SetBasicAuth.
Credentials(k) == << k.BotUsername, k.ApiKey >>

\* payload := Messages{messages}
MessagesPayload(messages) == [go |-> "Messages", Messages |-> messages]

\* SetConfiguration decoding into a Configuration of its own.
SetConfigurationFresh(c) == [go |-> "**Configuration", ptr |-> NilPtr]

\* The decode target of SetConfiguration: &c, the address of its parameter.
SetConfigurationTarget(c) == [go |-> "**Configuration", ptr |-> c]

\* The decode target of SendMessage and BroadcastMessage: nil.
SendTarget == NilValue

\* The error of the call dropped.
ReturnErrSwallowed(err) == [result |-> NilPtr, err |-> NilErr]

\* The return of an operation that returns an error alone.
ReturnErr(err) == [result |-> NilPtr, err |-> err]

\* The value returned whether or not k.do failed.
ReturnValueKept(d) == [result |-> Ptr(d.v.val), err |-> d.err]

\* The return of GetConfiguration, GetUser and CreateCode after k.do.
ReturnValue(d) ==
  IF d.err # NilErr THEN [result |-> NilPtr, err |-> d.err]
  ELSE [result |-> Ptr(d.v.val), err |-> NilErr]

\* VerifySignature(signature, body), with the digests of the model's bodies
\* and keys computed once.
WebhookHello == << 104, 101, 108, 108, 111 >>
WebhookWhat  ==
  << 119, 104, 97, 116, 32, 100, 111, 32, 121, 97, 32, 119, 97, 110, 116, 32, 102, 111, 114, 32, 110, 111, 116, 104, 105, 110, 103, 63 >>
WebhookBodies == { WebhookHello, WebhookWhat }

KeySecret == << "s", "e", "c", "r", "e", "t" >>
KeyJefe   == << "J", "e", "f", "e" >>
ApiKeys   == { KeySecret, KeyJefe }

Hmac1Memo == { << b, s, computeHmac1(b, s) >> : b \in WebhookBodies, s \in ApiKeys }

Hmac1(message, secret) ==
  (CHOOSE e \in Hmac1Memo : e[1] = message /\ e[2] = secret)[3]

\* The comparison made with strings.EqualFold.
VerifySignatureFold(k, signature, body) ==
  ToLower(signature) = ToLower(Hmac1(body, k.ApiKey))

VerifySignatureResult(k, signature, body) == signature = Hmac1(body, k.ApiKey)

(***************************************************************************)
(* Bounds and inputs                                                       *)
(***************************************************************************)

\* The longest base URL drawn from UrlAlphabet.
MaxUrlLen == 3

\* The longest message list.
MaxMessages == 1

\* The goroutines that call the client concurrently.
Callers == { "g1", "g2" }

UrlAlphabet == { "a", "1", ":", "/", "%", "\t" }

RECURSIVE StringsUpTo(_, _)
StringsUpTo(A, n) ==
  IF n = 0 THEN { << >> }
  ELSE LET S == StringsUpTo(A, n - 1)
       IN  S \cup { Append(t, c) : t \in { u \in S : Len(u) = n - 1 }, c \in A }

BaseKik     == << "h", "t", "t", "p", "s", ":", "/", "/", "a", "p", "i", ".", "k", "i", "k", ".", "c", "o", "m", "/" >>
BaseKikBare == << "h", "t", "t", "p", "s", ":", "/", "/", "a", "p", "i", ".", "k", "i", "k", ".", "c", "o", "m" >>
BaseBot     == << "h", "t", "t", "p", ":", "/", "/", "h", "/", "b", "o", "t", "/" >>

\* Base URLs longer than MaxUrlLen that net/url refuses or rewrites.
LongUrls ==
  { BaseKik, BaseKikBare, BaseBot,
    << "/", "/", "a", ":", "1", "/" >>, << "/", "/", "a", ":", "a", "/" >>,
    << "/", "/", "%", "2", "5", "/" >>, << "/", "/", "%", "2", "1", "/" >>,
    << "H", "T", "T", "P", ":", "/", "/", "h", "/" >>,
    << "a", "/", "%", "a", "1", "/" >>, << "a", "/", "%", "a", "/" >> }

Bot1  == << "b", "o", "t", "1" >>
Alice == << "a", "l", "i", "c", "e" >>
Bob   == << "b", "o", "b" >>

Usernames == { Alice, Bob }

MessageValues == { "hi", Unsupported }

MessageLists ==
  { NilSlice } \cup { Slice(e) : e \in StringsUpTo(MessageValues, MaxMessages) }

Configurations == { NilPtr, Ptr([Webhook |-> "w1", Features |-> "f1"]) }

ScanDatas == { NilPtr, Ptr("scan"), Ptr(Unsupported) }

\* What the transport may answer.
Outcomes ==
  { RoundTripError }
    \cup { Response(c, b) : c \in { 200, 299 }, b \in { RUser, RConfig, RCode, RNull, RBad } }
    \cup { Response(200, RArray), Response(204, REmpty) }
    \cup { Response(c, b) : c \in { 199, 300, 404 }, b \in { RConfig, RBad } }

\* The digests of the model's bodies and keys, from an HMAC-SHA1 reference
\* (the last one is test case 2 of RFC 2202).
RefDigest(body, key) ==
  IF body = WebhookHello /\ key = KeySecret
  THEN << "5", "1", "1", "2", "0", "5", "5", "c", "0", "5", "f", "9", "4", "4", "f", "8", "5", "7", "5", "5",
          "e", "f", "c", "5", "c", "d", "8", "9", "7", "0", "e", "1", "9", "4", "e", "9", "f", "4", "5", "b" >>
  ELSE IF body = WebhookHello /\ key = KeyJefe
  THEN << "b", "1", "9", "6", "2", "5", "7", "0", "4", "a", "3", "9", "3", "6", "c", "8", "9", "5", "6", "2",
          "1", "7", "f", "c", "5", "4", "3", "9", "1", "7", "e", "3", "b", "b", "b", "6", "3", "4", "b", "c" >>
  ELSE IF body = WebhookWhat /\ key = KeySecret
  THEN << "1", "1", "0", "8", "f", "7", "5", "c", "c", "6", "e", "c", "e", "5", "4", "f", "f", "2", "c", "f",
          "0", "1", "c", "d", "5", "f", "6", "b", "2", "5", "e", "d", "d", "8", "4", "f", "0", "1", "2", "c" >>
  ELSE << "e", "f", "f", "c", "d", "f", "6", "a", "e", "5", "e", "b", "2", "f", "a", "2", "d", "2", "7", "4",
          "1", "6", "d", "5", "f", "1", "8", "4", "d", "f", "9", "c", "2", "5", "9", "a", "7", "c", "7", "9" >>

ToUpperChar(c) == IF c \in Lower THEN Printable[(Ord(c) - 31) - 32] ELSE c

\* The signatures a webhook delivery of a body may claim: the digest under
\* each key, and each digest changed in one character, in case or in length.
Signatures(body) ==
  UNION { LET d == RefDigest(body, key)
          IN  { d, << >>, [i \in 1..Len(d) |-> ToUpperChar(d[i])],
                SubSeq(d, 1, Len(d) - 1), d \o << "0" >>, SubSeq(d, 2, Len(d)) }
                \cup { [d EXCEPT ![i] = IF d[i] = "0" THEN "1" ELSE "0"] : i \in 1..Len(d) }
        : key \in ApiKeys }

AllDeliveries ==
  UNION { { [signature |-> sg, body |-> b] : sg \in Signatures(b) } : b \in WebhookBodies }

FewDeliveries ==
  { [signature |-> sg, body |-> WebhookHello]
      : sg \in { RefDigest(WebhookHello, KeySecret), RefDigest(WebhookHello, KeyJefe) } }

\* The deliveries of each kind of run.
Deliveries(kind) ==
  IF kind = "all" THEN AllDeliveries ELSE IF kind = "few" THEN FewDeliveries ELSE { }

(***************************************************************************)
(* State                                                                   *)
(***************************************************************************)

VARIABLES
  args,        \* the arguments of NewKikClient
  made,        \* whether NewKikClient has returned
  client,      \* the *Client it returned (NilPtr: nil)
  newErr,      \* the error it returned
  deliveries,  \* which webhook deliveries the callers are asked to verify
  calls        \* per caller: the call in progress

vars == << args, made, client, newErr, deliveries, calls >>

NoRet  == [none |-> TRUE]
NoResp == [none |-> TRUE]
NoArg  == [none |-> TRUE]

\* A caller outside any call.
Idle ==
  [pc |-> "idle", op |-> "", arg |-> NoArg, berr |-> NilErr, req |-> NoReq,
   sent |-> NoReq, resp |-> NoResp, v0 |-> NilValue, v |-> NilValue,
   decoded |-> FALSE, ret |-> NoRet]

ArgSets(urls, keys, clients) ==
  [baseUrl : urls, botUsername : { Bot1 }, apiKey : keys, httpClient : clients]

InitWith(A, D) ==
  /\ args \in A
  /\ made = FALSE
  /\ client = NilPtr
  /\ newErr = NilErr
  /\ deliveries = D
  /\ calls = [g \in Callers |-> Idle]

\* The API operations called on a client of a few base URLs.
Init == InitWith(ArgSets({ BaseKik, BaseBot, BaseKikBare }, { KeySecret }, { "nil" }),
                 "few")

\* Construction over every short base URL.
InitNew == InitWith(ArgSets(StringsUpTo(UrlAlphabet, MaxUrlLen) \cup LongUrls,
                            { KeySecret }, { "nil", "custom" }), "none")

\* Webhook verification over every variation of a signature.
InitVerify == InitWith(ArgSets({ BaseKik }, ApiKeys, { "nil" }), "all")

(***************************************************************************)
(* Actions                                                                 *)
(***************************************************************************)

NewKikClient ==
  /\ ~made
  /\ LET r == NewKikClientResult(args.baseUrl, args.botUsername, args.apiKey,
                                 args.httpClient)
     IN  /\ client' = r.client
         /\ newErr' = r.err
  /\ made' = TRUE
  /\ UNCHANGED << args, deliveries, calls >>

\* Build with the path of the request written into the client's base URL.
BuildInPlace(g, op, arg, method, urlStr, body) ==
  /\ made
  /\ ~client.isnil
  /\ calls[g].pc = "idle"
  /\ LET r == newRequest(client.val, method, urlStr, body)
     IN  calls' = [calls EXCEPT ![g] =
           IF BuildFailed(r)
           THEN [Idle EXCEPT !.pc = "done", !.op = op, !.arg = arg, !.berr = r.err,
                             !.ret = ReturnErr(r.err)]
           ELSE [Idle EXCEPT !.pc = "built", !.op = op, !.arg = arg, !.berr = r.err,
                             !.req = r.req]]
  /\ client' = [client EXCEPT !.val.BaseUrl.Path = urlStr]
  /\ UNCHANGED << args, made, newErr, deliveries >>

\* The call of newRequest that opens every API operation, and the return
\* when it fails.
Build(g, op, arg, method, urlStr, body) ==
  /\ made
  /\ ~client.isnil
  /\ calls[g].pc = "idle"
  /\ LET r == newRequest(client.val, method, urlStr, body)
     IN  calls' = [calls EXCEPT ![g] =
           IF BuildFailed(r)
           THEN [Idle EXCEPT !.pc = "done", !.op = op, !.arg = arg, !.berr = r.err,
                             !.ret = ReturnErr(r.err)]
           ELSE [Idle EXCEPT !.pc = "built", !.op = op, !.arg = arg, !.berr = r.err,
                             !.req = r.req]]
  /\ UNCHANGED << args, made, client, newErr, deliveries >>

\* req.SetBasicAuth(k.BotUsername, k.ApiKey)
Auth(g, op) ==
  /\ calls[g].pc = "built"
  /\ calls[g].op = op
  /\ calls' = [calls EXCEPT ![g].pc = "authed",
                            ![g].req = SetBasicAuth(calls[g].req,
                                                    Credentials(client.val)[1],
                                                    Credentials(client.val)[2])]
  /\ UNCHANGED << args, made, client, newErr, deliveries >>

\* k.do(req, v) and the return that follows it; valued: the operation
\* returns the decoded value.
Exec(g, op, v, valued) ==
  /\ calls[g].pc = "authed"
  /\ calls[g].op = op
  /\ \E t \in Outcomes :
       LET d == do(client.val, calls[g].req, v, t)
       IN  calls' = [calls EXCEPT ![g].pc = "done",
                                  ![g].sent = calls[g].req,
                                  ![g].resp = t,
                                  ![g].v0 = v,
                                  ![g].v = d.v,
                                  ![g].decoded = d.decoded,
                                  ![g].ret = IF valued THEN ReturnValue(d)
                                             ELSE ReturnErr(d.err)]
  /\ UNCHANGED << args, made, client, newErr, deliveries >>

SetConfiguration(g) ==
  \/ \E c \in Configurations :
       Build(g, "SetConfiguration", [c |-> c], "POST", ConfigtUrl,
             [go |-> "*Configuration", ptr |-> c])
  \/ Auth(g, "SetConfiguration")
  \/ Exec(g, "SetConfiguration", SetConfigurationTarget(calls[g].arg.c), FALSE)

GetConfiguration(g) ==
  \/ Build(g, "GetConfiguration", NoArg, "GET", ConfigtUrl, NilValue)
  \/ Auth(g, "GetConfiguration")
  \/ Exec(g, "GetConfiguration", [go |-> "*Configuration", val |-> ZeroConfiguration], TRUE)

SendMessage(g) ==
  \/ \E m \in MessageLists :
       Build(g, "SendMessage", [messages |-> m], "POST", SendMessageUrl, MessagesPayload(m))
  \/ Auth(g, "SendMessage")
  \/ Exec(g, "SendMessage", SendTarget, FALSE)

BroadcastMessage(g) ==
  \/ \E m \in MessageLists :
       Build(g, "BroadcastMessage", [messages |-> m], "POST", BroadcastUrl,
             MessagesPayload(m))
  \/ Auth(g, "BroadcastMessage")
  \/ Exec(g, "BroadcastMessage", SendTarget, FALSE)

GetUser(g) ==
  \/ \E u \in Usernames :
       Build(g, "GetUser", [username |-> u], "GET", GetUserUrl \o u, NilValue)
  \/ Auth(g, "GetUser")
  \/ Exec(g, "GetUser", [go |-> "*User", val |-> ZeroUser], TRUE)

CreateCode(g) ==
  \/ \E s \in ScanDatas :
       Build(g, "CreateCode", [s |-> s], "POST", CodeUrl, [go |-> "*ScanData", ptr |-> s])
  \/ Auth(g, "CreateCode")
  \/ Exec(g, "CreateCode", [go |-> "*Code", val |-> ZeroCode], TRUE)

VerifySignature(g) ==
  /\ made
  /\ ~client.isnil
  /\ calls[g].pc = "idle"
  /\ \E w \in Deliveries(deliveries) :
       calls' = [calls EXCEPT ![g] =
         [Idle EXCEPT !.pc = "done", !.op = "VerifySignature", !.arg = w,
                      !.ret = [ok |-> VerifySignatureResult(client.val, w.signature, w.body)]]]
  /\ UNCHANGED << args, made, client, newErr, deliveries >>

\* The caller takes the result; it may call again.
Return(g) ==
  /\ calls[g].pc = "done"
  /\ calls' = [calls EXCEPT ![g] = Idle]
  /\ UNCHANGED << args, made, client, newErr, deliveries >>

Next ==
  \/ NewKikClient
  \/ \E g \in Callers :
       \/ SetConfiguration(g)
       \/ GetConfiguration(g)
       \/ SendMessage(g)
       \/ BroadcastMessage(g)
       \/ GetUser(g)
       \/ CreateCode(g)
       \/ VerifySignature(g)
       \/ Return(g)

Spec == Init /\ [][Next]_vars

NextNew == NewKikClient

SpecNew == InitNew /\ [][NextNew]_vars

NextVerify ==
  \/ NewKikClient
  \/ \E g \in Callers : VerifySignature(g) \/ Return(g)

SpecVerify == InitVerify /\ [][NextVerify]_vars

(***************************************************************************)
(* Properties                                                              *)
(***************************************************************************)

ValueOps == { "GetConfiguration", "GetUser", "CreateCode" }
ApiOps   == ValueOps \cup { "SetConfiguration", "SendMessage", "BroadcastMessage" }

EndsInSlash(s) == Len(s) > 0 /\ s[Len(s)] = "/"

Non2xx(t) == t.kind = "response" /\ ~(t.StatusCode \in 200..299)

\* C1: NewKikClient returns a client and no error for every base URL that
\* net/url parses and that ends in "/", and an error and a nil client for
\* every base URL that does not end in "/"; exactly one of the two is nil.
C1_ConstructionOutcome ==
  made =>
    /\ (EndsInSlash(args.baseUrl) /\ Parse(args.baseUrl).err = "nil")
         => (~client.isnil /\ newErr = NilErr)
    /\ ~EndsInSlash(args.baseUrl) => (client.isnil /\ newErr.kind = "ConfigError")
    /\ client.isnil <=> newErr # NilErr

C1_Witness ==
  /\ made
  /\ args.baseUrl = BaseKikBare
  /\ client.isnil
  /\ newErr.kind = "ConfigError"

\* The Authorization header of bot1:secret.
BasicBot1Secret ==
  << "B", "a", "s", "i", "c", " ", "Y", "m", "9", "0", "M", "T", "p", "z", "Z", "W", "N", "y", "Z", "X",
     "Q", "=" >>

\* C2: every request an API operation gives to the transport, and every
\* request it holds after SetBasicAuth, carries the Basic Auth header of the
\* (BotUsername, ApiKey) pair NewKikClient was called with.
C2_AlwaysAuthenticated ==
  \A g \in Callers :
    /\ calls[g].pc = "authed" => calls[g].req.Authorization = BasicBot1Secret
    /\ calls[g].sent # NoReq =>
         /\ calls[g].sent.Authorization = BasicBot1Secret
         /\ args.botUsername = Bot1 /\ args.apiKey = KeySecret
         /\ client.val.BotUsername = args.botUsername
         /\ client.val.ApiKey = args.apiKey

C2_Witness ==
  /\ calls["g1"].op = "BroadcastMessage" /\ calls["g1"].sent # NoReq
  /\ calls["g2"].op = "GetUser" /\ calls["g2"].sent # NoReq

\* C3: a request reaches the transport only from a call that has built it and
\* then set its credentials, and a call whose build step fails returns that
\* error without giving any request to the transport.
C3_BuildAuthExecute ==
  [][\A g \in Callers :
       /\ calls'[g].berr # NilErr
            => /\ calls'[g].pc = "done"
               /\ calls'[g].ret.err = calls'[g].berr
               /\ calls'[g].berr.kind = "EncodeError"
               /\ calls'[g].sent = NoReq
               /\ calls'[g].resp = NoResp
       /\ calls'[g].pc = "built" /\ calls[g].pc # "built"
            => (calls[g].pc = "idle" /\ calls'[g].req.Authorization = << >>)
       /\ calls'[g].pc = "authed" /\ calls[g].pc # "authed"
            => (calls[g].pc = "built" /\ calls'[g].sent = NoReq)
       /\ calls'[g].sent # NoReq /\ calls[g].sent = NoReq
            => /\ calls[g].pc = "authed"
               /\ calls[g].req.Authorization # << >>
               /\ calls'[g].sent = calls[g].req]_vars

C3_Witness ==
  /\ calls["g1"].op = "SendMessage"
  /\ calls["g1"].pc = "done"
  /\ calls["g1"].berr.kind = "EncodeError"
  /\ calls["g1"].sent = NoReq
  /\ calls["g2"].op = "CreateCode"
  /\ calls["g2"].sent # NoReq

\* C4: VerifySignature returns true exactly when the signature is the
\* lowercase hex HMAC-SHA1 digest of the body under the client's ApiKey; a
\* signature that differs from it in one character, in case or in length
\* (the empty one too) gets false.
C4_VerifyIffDigest ==
  \A g \in Callers :
    (calls[g].pc = "done" /\ calls[g].op = "VerifySignature") =>
      /\ calls[g].ret.ok \in BOOLEAN
      /\ calls[g].ret.ok <=>
           (calls[g].arg.signature = RefDigest(calls[g].arg.body, client.val.ApiKey))

C4_Witness ==
  /\ ~client.isnil
  /\ client.val.ApiKey = KeySecret
  /\ calls["g1"].pc = "done"
  /\ calls["g1"].arg = [signature |-> RefDigest(WebhookHello, KeySecret), body |-> WebhookHello]
  /\ calls["g1"].ret.ok
  /\ calls["g2"].pc = "done"
  /\ calls["g2"].arg.body = WebhookHello
  /\ calls["g2"].arg.signature =
       [i \in 1..40 |-> ToUpperChar(RefDigest(WebhookHello, KeySecret)[i])]
  /\ ~calls["g2"].ret.ok

\* C5: after a response whose status is outside 200..299 the call returns a
\* StatusError with that status and that body, the body has not been given
\* to the decoder, the decode target is as it was, and no result is returned.
C5_StatusError ==
  \A g \in Callers :
    (calls[g].pc = "done" /\ calls[g].op \in ApiOps /\ calls[g].resp # NoResp
       /\ Non2xx(calls[g].resp)) =>
      /\ calls[g].ret.err =
           [kind |-> "StatusError", code |-> calls[g].resp.StatusCode,
            body |-> calls[g].resp.Body]
      /\ ~calls[g].decoded
      /\ calls[g].v = calls[g].v0
      /\ calls[g].ret.result = NilPtr

C5_Witness ==
  /\ calls["g1"].op = "GetUser"
  /\ calls["g1"].pc = "done"
  /\ calls["g1"].resp = Response(404, RBad)
  /\ calls["g1"].ret.err.kind = "StatusError"

\* The calls that must end in an error: a failed build, a transport error, a
\* status outside 2xx, or a 2xx body the target cannot be decoded from.
MustFail(c) ==
  \/ c.berr # NilErr
  \/ /\ c.resp # NoResp
     /\ \/ c.resp.kind = "error"
        \/ Non2xx(c.resp)
        \/ (c.v0 # NilValue /\ c.resp.Body \in { RBad, REmpty, RArray })

\* C6: every API call ends with an error exactly when one of its steps
\* failed, the error being the one of that step, and GetConfiguration,
\* GetUser and CreateCode return a result exactly when they return no error.
C6_OneOutcome ==
  \A g \in Callers :
    (calls[g].pc = "done" /\ calls[g].op \in ApiOps) =>
      /\ (calls[g].ret.err # NilErr) <=> MustFail(calls[g])
      /\ calls[g].berr # NilErr => calls[g].ret.err = calls[g].berr
      /\ (calls[g].resp # NoResp /\ calls[g].resp.kind = "error")
           => calls[g].ret.err.kind = "TransportError"
      /\ calls[g].op \in ValueOps =>
           (calls[g].ret.result.isnil <=> calls[g].ret.err # NilErr)
      /\ calls[g].op \notin ValueOps => calls[g].ret.result.isnil

C6_Witness ==
  /\ calls["g1"].op = "CreateCode"
  /\ calls["g1"].pc = "done"
  /\ calls["g1"].ret.err.kind = "DecodeError"
  /\ calls["g1"].ret.result.isnil
  /\ calls["g2"].op = "GetConfiguration"
  /\ calls["g2"].pc = "done"
  /\ calls["g2"].ret.err = NilErr
  /\ calls["g2"].ret.result = Ptr([Webhook |-> "w2", Features |-> ""])

\* C7: no step of any call changes the client: BotUsername, ApiKey, BaseUrl
\* and the transport handle stay as NewKikClient set them, whatever the other
\* caller is doing, and every request is addressed under the base URL.
C7_ClientReadOnly ==
  [][made =>
       /\ client' = client
       /\ ~client.isnil =>
            /\ client'.val.BotUsername = args.botUsername
            /\ client'.val.ApiKey = args.apiKey
            /\ client'.val.Client = "&http.Client{}"
            /\ String(client'.val.BaseUrl) = args.baseUrl
       /\ \A g \in Callers :
            calls'[g].req # NoReq => HasPrefix(calls'[g].req.URL, args.baseUrl)]_vars

C7_Witness ==
  /\ calls["g1"].pc = "authed" /\ calls["g1"].op = "SetConfiguration"
  /\ calls["g2"].pc = "done" /\ calls["g2"].op = "VerifySignature"

\* The request line the external interface gives each operation at the base
\* URL https://api.kik.com/.
KikUrl(path) == << "h", "t", "t", "p", "s", ":", "/", "/", "a", "p", "i", ".", "k", "i", "k", ".", "c", "o", "m" >> \o path

InterfaceLine(c) ==
  IF c.op = "GetUser" THEN << "GET", KikUrl(GetUserUrl \o c.arg.username) >>
  ELSE IF c.op = "SendMessage" THEN << "POST", KikUrl(SendMessageUrl) >>
  ELSE IF c.op = "BroadcastMessage" THEN << "POST", KikUrl(BroadcastUrl) >>
  ELSE IF c.op = "GetConfiguration" THEN << "GET", KikUrl(ConfigtUrl) >>
  ELSE IF c.op = "SetConfiguration" THEN << "POST", KikUrl(ConfigtUrl) >>
  ELSE << "POST", KikUrl(CodeUrl) >>

C9_MessagesEnvelope ==
  \A g \in Callers :
    (calls[g].op \in { "SendMessage", "BroadcastMessage" } /\ calls[g].req # NoReq) =>
      /\ calls[g].req.Method = "POST"
      /\ calls[g].req.Body.present
      /\ calls[g].req.Body.json.j = "object"
      /\ DOMAIN calls[g].req.Body.json.fields = { "messages" }
      /\ calls[g].req.Body.json.fields.messages.j = "array"
      /\ Len(calls[g].arg.messages.elems) = 0
           => calls[g].req.Body.json = JObj([messages |-> JArr(<< >>)])
      /\ calls[g].sent # NoReq => (calls[g].v0 = NilValue /\ ~calls[g].decoded)

\* The struct the caller of SetConfiguration(c) holds after the call: what c
\* points to, written by the decoder when the target still leads to it.
CallerConfiguration(c) ==
  IF c.pc = "done" /\ c.v0.go = "**Configuration" /\ c.v0.ptr = c.arg.c /\ ~c.v.ptr.isnil
  THEN c.v.ptr.val
  ELSE c.arg.c.val

\* C10: SetConfiguration posts the caller's configuration to /v1/config and,
\* when it returns no error, every field the 2xx response names has the
\* response's value in the caller's own struct; when a step fails it returns
\* that step's error.
C10_SetConfiguration ==
  \A g \in Callers :
    (calls[g].op = "SetConfiguration" /\ ~calls[g].arg.c.isnil) =>
      /\ calls[g].req # NoReq =>
           /\ calls[g].req.Method = "POST"
           /\ HasSuffix(calls[g].req.URL, ConfigtUrl)
           /\ calls[g].req.Body =
                [present |-> TRUE,
                 json |-> JObj([webhook  |-> JStr(calls[g].arg.c.val.Webhook),
                                features |-> JStr(calls[g].arg.c.val.Features)])]
      /\ calls[g].pc = "done" =>
           /\ (calls[g].ret.err # NilErr) <=> MustFail(calls[g])
           /\ (calls[g].ret.err = NilErr /\ calls[g].resp.Body = RConfig)
                => CallerConfiguration(calls[g]) = [Webhook |-> "w2", Features |-> "f1"]
           /\ (calls[g].ret.err = NilErr /\ calls[g].resp.Body # RConfig)
                => CallerConfiguration(calls[g]) = calls[g].arg.c.val

C10_Witness ==
  /\ calls["g1"].op = "SetConfiguration"
  /\ calls["g1"].pc = "done"
  /\ ~calls["g1"].arg.c.isnil
  /\ calls["g1"].resp = Response(200, RConfig)
  /\ calls["g1"].ret.err = NilErr
  /\ CallerConfiguration(calls["g1"]).Webhook = "w2"

====
